---- MODULE Spec2Model ----
(***************************************************************************)
(* The resolve_app_vars filter of plugins/filter/app_vars.py, and the      *)
(* template that applies it (EXAMPLES, line 47):                           *)
(*   deploy: "{{ playbook_app | resolve_app_vars(_app_var_specs,           *)
(*                                   hostvars[inventory_hostname]) }}"     *)
(*                                                                         *)
(* Python objects are modelled by what the filter can observe of them:     *)
(*   - a value stored in a mapping is the text of its Python repr          *)
(*     ("None", "'nginx'", "[]", "0", ...), so None, the empty list, the   *)
(*     empty string, zero and False are five different values;             *)
(*   - an argument is a record that carries its Python type name, so the   *)
(*     isinstance checks have something to decide;                         *)
(*   - a dict is the sequence of its (key, value) pairs in insertion       *)
(*     order, keys distinct; two dicts are equal (Python ==) when they     *)
(*     hold the same pairs, in any order.                                  *)
(***************************************************************************)
EXTENDS Integers, Sequences, FiniteSets, TLC

VARIABLES
    playbook_app,        \* the object passed as app_name
    app_var_specs,       \* the object passed as var_specs
    inventory_hostvars,  \* the object passed as hostvars (current host)
    self,                \* attributes held by the FilterModule instance
    deploy,              \* outcome of the last call for the current host
    first,               \* the first call made: its hostvars and outcome,
                         \* and which calls have followed it
    frames,              \* concurrent callers: the locals of each one's call
    heap,                \* the dict objects those calls have allocated
    molecule             \* the molecule tests: the helper that runs, its
                         \* locals, the clock and what docker answered

vars == <<playbook_app, app_var_specs, inventory_hostvars, self, deploy, first,
          frames, heap, molecule>>

(***************************************************************************)
(* Bounds of the model.                                                    *)
(***************************************************************************)
MaxSpecs == 2   \* entries of a generated var_specs
MaxEnv == 2     \* entries of a generated hostvars
MaxCallers == 2 \* callers that run the filter at the same time
MaxCalls == 2   \* calls made one after another on the same objects
MaxTimeout == 3 \* seconds wait_for_container_ready is given
MaxDelay == 1   \* seconds a statement takes beyond what it must
MaxEntryLen == 3 \* characters of a string of a container's Env
MaxEnvList == 2  \* strings of a container's Env

(***************************************************************************)
(* Python values and dicts.                                                *)
(***************************************************************************)
None == "None"

\* Values bool() maps to False: what "if value:" would skip.
Falsy == {"None", "[]", "{}", "''", "0", "False"}

EmptyDict == <<>>

Keys(d) == {d[i][1] : i \in DOMAIN d}

Contains(d, k) == \E i \in DOMAIN d : d[i][1] = k

GetItem(d, k) == d[CHOOSE i \in DOMAIN d : d[i][1] = k][2]

\* Python dict equality: same keys, same value under each key.
DictEq(a, b) ==
    /\ Keys(a) = Keys(b)
    /\ \A k \in Keys(a) : GetItem(a, k) = GetItem(b, k)

\* d.get(k) or default: a value that is empty or false gives way to the
\* default.
dict_get_or_default(d, k, default) ==
    IF Contains(d, k) /\ GetItem(d, k) \notin Falsy
    THEN GetItem(d, k)
    ELSE default

\* d.get(k): the default is not passed on.
dict_get_no_default(d, k, default) ==
    IF Contains(d, k) THEN GetItem(d, k) ELSE None

\* A None found under the key counts as no value: the default is used.
dict_get_none_is_missing(d, k, default) ==
    IF Contains(d, k) /\ GetItem(d, k) # None THEN GetItem(d, k) ELSE default

\* d.get(k, default)
dict_get(d, k, default) == IF Contains(d, k) THEN GetItem(d, k) ELSE default

\* d[k] = v: overwrite in place, or insert at the end.
dict_setitem(d, k, v) ==
    IF Contains(d, k)
    THEN [i \in DOMAIN d |-> IF d[i][1] = k THEN <<k, v>> ELSE d[i]]
    ELSE Append(d, <<k, v>>)

\* isinstance(x, str): str and its subclasses.
StrTypes == {"str", "AnsibleUnicode"}

\* isinstance(x, Mapping): dict and the other registered mappings.
MappingTypes == {"dict", "HostVarsVars"}

isinstance_str(x) == x.type \in StrTypes

\* The list and dict values among the values of specs and hostvars.
ListValues == {"[]", "['/data']", "['/logs']", "['80']"}

DictValues == {"{}", "{'a': 1}", "{'b': 2}"}

\* default + value for two lists, {**default, **value} for two dicts.
merged(default, value) ==
    IF default \in ListValues /\ value \in ListValues
    THEN default \o " + " \o value
    ELSE IF default \in DictValues /\ value \in DictValues
         THEN "{**" \o default \o ", **" \o value \o "}"
         ELSE value

isinstance_Mapping(x) == x.type \in MappingTypes

(***************************************************************************)
(* FilterModule.resolve_app_vars (lines 68-95).                            *)
(*                                                                         *)
(* A frame holds the local "result" and the two argument mappings as the   *)
(* statements of the loop leave them, so a statement that wrote to an      *)
(* argument would show, and the number of lookups made in hostvars so far. *)
(***************************************************************************)
NoError == ""

\* The third check repeats the second: hostvars is never examined.
type_error_repeated_check(app_name, var_specs, hostvars) ==
    IF ~isinstance_str(app_name)
    THEN "app_name must be a string, got " \o app_name.type
    ELSE IF ~isinstance_Mapping(var_specs)
    THEN "var_specs must be a dict-like object, got " \o var_specs.type
    ELSE NoError

\* The messages end with the type that was expected, not the one received.
type_error_names_expected_type(app_name, var_specs, hostvars) ==
    IF ~isinstance_str(app_name)
    THEN "app_name must be a string, got str"
    ELSE IF ~isinstance_Mapping(var_specs)
    THEN "var_specs must be a dict-like object, got dict"
    ELSE IF ~isinstance_Mapping(hostvars)
    THEN "hostvars must be a dict-like object, got dict"
    ELSE NoError

\* The three checks in the opposite order: hostvars, var_specs, app_name.
type_error_hostvars_first(app_name, var_specs, hostvars) ==
    IF ~isinstance_Mapping(hostvars)
    THEN "hostvars must be a dict-like object, got " \o hostvars.type
    ELSE IF ~isinstance_Mapping(var_specs)
    THEN "var_specs must be a dict-like object, got " \o var_specs.type
    ELSE IF ~isinstance_str(app_name)
    THEN "app_name must be a string, got " \o app_name.type
    ELSE NoError

\* Lines 80-85: the three checks, in order; the message of the first that
\* fails, NoError when all pass.
type_error(app_name, var_specs, hostvars) ==
    IF ~isinstance_str(app_name)
    THEN "app_name must be a string, got " \o app_name.type
    ELSE IF ~isinstance_Mapping(var_specs)
    THEN "var_specs must be a dict-like object, got " \o var_specs.type
    ELSE IF ~isinstance_Mapping(hostvars)
    THEN "hostvars must be a dict-like object, got " \o hostvars.type
    ELSE NoError

\* f"{var_name}_{app_name}": the suffix first.
lookup_key_suffix_first(app_name, var_name) ==
    var_name \o "_" \o app_name.text

\* "_".join of the non-empty parts: no separator after an empty app_name.
lookup_key_skips_empty_prefix(app_name, var_name) ==
    IF app_name.text = "" THEN var_name ELSE app_name.text \o "_" \o var_name

\* f"{app_name}__{var_name}": a separator that keeps app "app", suffix
\* "db_image" apart from app "app_db", suffix "image".
lookup_key_double_separator(app_name, var_name) ==
    app_name.text \o "__" \o var_name

\* Line 89: f"{app_name}_{var_name}"
lookup_key(app_name, var_name) == app_name.text \o "_" \o var_name

\* "if value:" in place of "if value is not None:".
is_truthy(value) == value \notin Falsy

\* No test at all: every resolved value is stored.
always_stored(value) == TRUE

\* Line 92: value is not None
is_not_None(value) == value # None

\* Line 87: result = {}
new_result(self_) == EmptyDict

\* result[lookup_key] = value: the entry is stored under the host
\* variable's name.
for_body_stores_lookup_key(frame, app_name, var_name, default) ==
    LET value == dict_get(frame.hostvars.items,
                          lookup_key(app_name, var_name), default)
    IN  IF is_not_None(value)
        THEN [frame EXCEPT !.result =
                  dict_setitem(@, lookup_key(app_name, var_name), value)]
        ELSE frame

\* The default wins: the host variable is read only for a None default.
for_body_default_first(frame, app_name, var_name, default) ==
    LET value == IF default # None
                 THEN default
                 ELSE dict_get(frame.hostvars.items,
                               lookup_key(app_name, var_name), default)
    IN  IF is_not_None(value)
        THEN [frame EXCEPT !.result = dict_setitem(@, var_name, value)]
        ELSE frame

\* hostvars.setdefault(lookup_key, default): a missing host variable is
\* written back with the default.
for_body_setdefault(frame, app_name, var_name, default) ==
    LET key   == lookup_key(app_name, var_name)
        value == dict_get(frame.hostvars.items, key, default)
        after == IF Contains(frame.hostvars.items, key)
                 THEN frame
                 ELSE [frame EXCEPT !.hostvars.items = Append(@, <<key, default>>)]
    IN  IF is_not_None(value)
        THEN [after EXCEPT !.result = dict_setitem(@, var_name, value)]
        ELSE after

\* value = hostvars[lookup_key]: a missing host variable raises KeyError.
for_body_subscript(frame, app_name, var_name, default) ==
    LET key == lookup_key(app_name, var_name)
    IN  IF ~Contains(frame.hostvars.items, key)
        THEN [frame EXCEPT !.raised = "KeyError", !.lookups = @ + 1]
        ELSE LET value == GetItem(frame.hostvars.items, key)
                 looked == [frame EXCEPT !.lookups = @ + 1]
             IN  IF is_not_None(value)
                 THEN [looked EXCEPT !.result = dict_setitem(@, var_name, value)]
                 ELSE looked

\* hostvars.get(lookup_key, hostvars.get(var_name, default)): the host
\* variable without the prefix is read when the prefixed one is missing.
for_body_unprefixed_fallback(frame, app_name, var_name, default) ==
    LET value == dict_get(frame.hostvars.items,
                          lookup_key(app_name, var_name),
                          dict_get(frame.hostvars.items, var_name, default))
        looked == [frame EXCEPT !.lookups = @ + 1]
    IN  IF is_not_None(value)
        THEN [looked EXCEPT !.result = dict_setitem(@, var_name, value)]
        ELSE looked

\* The override is merged into a default of the same container type.
for_body_merges_containers(frame, app_name, var_name, default) ==
    LET got == dict_get(frame.hostvars.items, lookup_key(app_name, var_name), default)
        value == IF default = None \/ got = None THEN got ELSE merged(default, got)
        looked == [frame EXCEPT !.lookups = @ + 1]
    IN  IF is_not_None(value)
        THEN [looked EXCEPT !.result = dict_setitem(@, var_name, value)]
        ELSE looked

\* A value that is the default itself is left out: the result holds only
\* what the loop changed.
for_body_skips_unchanged(frame, app_name, var_name, default) ==
    LET value == dict_get(frame.hostvars.items, lookup_key(app_name, var_name), default)
        looked == [frame EXCEPT !.lookups = @ + 1]
    IN  IF is_not_None(value) /\ value # default
        THEN [looked EXCEPT !.result = dict_setitem(@, var_name, value)]
        ELSE looked

\* Lines 89-93: one pass of the loop body.  Only mappings have .get; on
\* any other object line 90 raises AttributeError.
for_body(frame, app_name, var_name, default) ==
    IF ~isinstance_Mapping(frame.hostvars)
    THEN [frame EXCEPT !.raised = "AttributeError"]
    ELSE LET value == dict_get(frame.hostvars.items,
                               lookup_key(app_name, var_name), default)
             looked == [frame EXCEPT !.lookups = @ + 1]
         IN  IF is_not_None(value)
             THEN [looked EXCEPT !.result = dict_setitem(@, var_name, value)]
             ELSE looked

\* "break" for a None value: the pairs after it are not resolved.
RECURSIVE for_items_breaks_at_None(_, _, _, _)
for_items_breaks_at_None(frame, app_name, items, i) ==
    IF i > Len(items) \/ frame.raised # NoError
    THEN frame
    ELSE LET after == for_body(frame, app_name, items[i][1], items[i][2])
         IN  IF after.result = frame.result
             THEN after
             ELSE for_items_breaks_at_None(after, app_name, items, i + 1)

\* Line 88: for var_name, default in var_specs.items(), from the i-th pair
\* on.  An exception raised in the body leaves the loop.
RECURSIVE for_items(_, _, _, _)
for_items(frame, app_name, items, i) ==
    IF i > Len(items) \/ frame.raised # NoError
    THEN frame
    ELSE for_items(for_body(frame, app_name, items[i][1], items[i][2]),
                   app_name, items, i + 1)

\* What a call leaves behind: the exception raised (NoError for none) and
\* its message, the mapping returned, and the instance and the two
\* argument mappings as they are after the call.
Outcome(raised, message, frame, self_) ==
    [raised    |-> raised,
     message   |-> message,
     returned  |-> raised = NoError,
     lookups   |-> frame.lookups,
     result    |-> IF raised = NoError THEN frame.result ELSE EmptyDict,
     self      |-> self_,
     var_specs |-> frame.var_specs,
     hostvars  |-> frame.hostvars]

\* The result dict is kept on the instance (self.result) and is not
\* emptied between calls.
resolve_app_vars_shared_result(self_, app_name, var_specs, hostvars) ==
    LET entry == [raised    |-> NoError,
                  lookups   |-> 0,
                  result    |-> IF Contains(self_, "result")
                                THEN GetItem(self_, "result")
                                ELSE EmptyDict,
                  var_specs |-> var_specs,
                  hostvars  |-> hostvars]
        err   == type_error(app_name, var_specs, hostvars)
    IN  IF err # NoError
        THEN Outcome("TypeError", err, entry, self_)
        ELSE LET exit == for_items(entry, app_name, var_specs.items, 1)
             IN  Outcome(exit.raised, "", exit, <<<<"result", exit.result>>>>)

\* hostvars is checked where it is first used, inside the loop: with no
\* pair to resolve it is never checked.
resolve_app_vars_checks_hostvars_late(self_, app_name, var_specs, hostvars) ==
    LET entry == [raised    |-> NoError,
                  lookups   |-> 0,
                  result    |-> new_result(self_),
                  var_specs |-> var_specs,
                  hostvars  |-> hostvars]
        err   == type_error(app_name, var_specs,
                            [type |-> "dict", items |-> EmptyDict])
    IN  IF err # NoError
        THEN Outcome("TypeError", err, entry, self_)
        ELSE IF var_specs.items # EmptyDict /\ ~isinstance_Mapping(hostvars)
        THEN Outcome("TypeError",
                     type_error(app_name, var_specs, hostvars), entry, self_)
        ELSE LET exit == for_items(entry, app_name, var_specs.items, 1)
             IN  Outcome(exit.raised, "", exit, self_)

\* if not hostvars: return var_specs -- with no host variables at all the
\* specs are returned as they are.
resolve_app_vars_empty_hostvars_shortcut(self_, app_name, var_specs, hostvars) ==
    LET entry == [raised    |-> NoError,
                  lookups   |-> 0,
                  result    |-> new_result(self_),
                  var_specs |-> var_specs,
                  hostvars  |-> hostvars]
        err   == type_error(app_name, var_specs, hostvars)
    IN  IF err # NoError
        THEN Outcome("TypeError", err, entry, self_)
        ELSE IF hostvars.items = EmptyDict
        THEN Outcome(NoError, "", [entry EXCEPT !.result = var_specs.items], self_)
        ELSE LET exit == for_items(entry, app_name, var_specs.items, 1)
             IN  Outcome(exit.raised, "", exit, self_)

resolve_app_vars(self_, app_name, var_specs, hostvars) ==
    LET entry == [raised    |-> NoError,
                  lookups   |-> 0,
                  result    |-> new_result(self_),
                  var_specs |-> var_specs,
                  hostvars  |-> hostvars]
        err   == type_error(app_name, var_specs, hostvars)
    IN  IF err # NoError
        THEN Outcome("TypeError", err, entry, self_)
        ELSE IF ~isinstance_Mapping(var_specs)
        THEN Outcome("AttributeError", "", entry, self_)  \* no .items()
        ELSE LET exit == for_items(entry, app_name, var_specs.items, 1)
             IN  Outcome(exit.raised, "", exit, self_)

\* The filter is registered under another name.
filters_renamed(self_) == <<<<"app_vars", "resolve_app_vars">>>>

\* Lines 63-66: FilterModule.filters, a dict from the filter's name to the
\* method of the instance that implements it.
filters(self_) == <<<<"resolve_app_vars", "resolve_app_vars">>>>

\* A method of the instance, called with three arguments: filters itself
\* takes none.
call_method(method, self_, app_name, var_specs, hostvars) ==
    IF method = "resolve_app_vars"
    THEN resolve_app_vars(self_, app_name, var_specs, hostvars)
    ELSE [raised |-> "TypeError", message |-> "", returned |-> FALSE,
          lookups |-> 0, result |-> EmptyDict, self |-> self_,
          var_specs |-> var_specs, hostvars |-> hostvars]

\* Line 47: "app_name | name(var_specs, hostvars)" in a template calls the
\* entry that filters() holds under that name; a name it does not hold is
\* a template error.
apply_filter(name, self_, app_name, var_specs, hostvars) ==
    IF Contains(filters(self_), name)
    THEN call_method(GetItem(filters(self_), name),
                     self_, app_name, var_specs, hostvars)
    ELSE [raised |-> "TemplateError", message |-> "", returned |-> FALSE,
          lookups |-> 0, result |-> EmptyDict, self |-> self_,
          var_specs |-> var_specs, hostvars |-> hostvars]

(***************************************************************************)
(* The objects a caller may pass.                                          *)
(***************************************************************************)
Str(text) == [type |-> "str", text |-> text]

Dict(items) == [type |-> "dict", items |-> items]

\* Variable suffixes and the host variables that can hold overrides.
Suffixes == {"image", "volumes", "image_tag"}

\* Host variable names, in the order the inventory defines them: the
\* overrides of "testapp", one of "app", and one that carries no prefix.
HostKeys == <<"testapp_image", "testapp_volumes", "app_image", "image">>

\* None, a non-empty string, and the values that are empty or false
\* without being None.
Values == {None, "'nginx'", "[]", "{}", "''", "0", "False"}

\* The values that dicts of several entries are generated from.
CoreValues == {None, "'nginx'", "[]"}

\* All dicts of at most n entries with keys in K and values in V, in every
\* insertion order.
RECURSIVE Dicts(_, _, _)
Dicts(K, V, n) ==
    IF n = 0
    THEN {EmptyDict}
    ELSE LET shorter == Dicts(K, V, n - 1)
             longest == {d \in shorter : Len(d) = n - 1}
         IN  shorter \cup
             UNION {{Append(d, <<k, v>>) : k \in K \ Keys(d), v \in V} :
                    d \in longest}

\* All dicts of at most n entries whose keys are taken from the sequence
\* keys from position i on, in that order, with values in V.
RECURSIVE OrderedDicts(_, _, _, _)
OrderedDicts(keys, V, n, i) ==
    IF n = 0 \/ i > Len(keys)
    THEN {EmptyDict}
    ELSE OrderedDicts(keys, V, n, i + 1) \cup
         {<<<<keys[i], v>>>> \o d :
             v \in V, d \in OrderedDicts(keys, V, n - 1, i + 1)}

\* The scenario of the filter's documentation (EXAMPLES, lines 40-43) and
\* of the deployment tests, which read testapp_image and
\* testapp_restart_policy from the host variables.
ExampleSpecs ==
    <<<<"image", None>>, <<"image_tag", "'latest'">>,
      <<"restart_policy", "'unless-stopped'">>>>

ExampleHostvars ==
    <<<<"testapp_image", "'nginx'">>, <<"testapp_restart_policy", "'always'">>>>

\* A second host of the inventory.
OtherHostvars ==
    <<<<"testapp_image", "'redis'">>, <<"testapp_volumes", "['/data']">>,
      <<"app_image", "'postgres'">>, <<"app_volumes", None>>>>

AppNames == {Str("testapp"), Str("app")}

\* A str subclass, as the templating engine passes it, the empty string
\* and a name with characters that are no part of an identifier.
SomeAppNames ==
    {Str("testapp"), [type |-> "AnsibleUnicode", text |-> "testapp"],
     Str(""), Str("my-app.v2")}

\* Host variables for those names, beside one that carries no prefix.
SpecialHostvars ==
    <<<<"_image", "'nginx'">>, <<"image", "'busybox'">>,
      <<"my-app.v2_image", "'httpd'">>>>

\* Defaults and overrides that are lists and dicts: a list over a list, a
\* dict over a dict, a string over a list.
ShapedSpecs ==
    <<<<"volumes", "['/data']">>, <<"labels", "{'a': 1}">>,
      <<"ports", "['80']">>>>

ShapedHostvars ==
    <<<<"testapp_volumes", "['/logs']">>, <<"testapp_labels", "{'b': 2}">>,
      <<"testapp_ports", "'8080'">>>>

NonStrings == {[type |-> "int", text |-> "5"], [type |-> "NoneType", text |-> "None"]}

VarSpecs ==
    {Dict(d) : d \in Dicts(Suffixes, CoreValues, MaxSpecs)
                      \cup Dicts(Suffixes, Values, 1) \cup {ExampleSpecs}}

Hostvars ==
    {Dict(d) : d \in OrderedDicts(HostKeys, CoreValues, MaxEnv, 1)
                      \cup OrderedDicts(HostKeys, Values, 1, 1)
                      \cup {ExampleHostvars}}

\* Objects that are no mapping: a list of pairs, None, a string.
NonMappings ==
    {[type |-> "list", items |-> <<<<"image", "'nginx'">>>>],
     [type |-> "list", items |-> EmptyDict],
     [type |-> "NoneType", items |-> EmptyDict],
     [type |-> "str", items |-> EmptyDict]}

\* A few mappings to go with an argument of the wrong type.
SomeVarSpecs == {Dict(EmptyDict), Dict(ExampleSpecs), Dict(ShapedSpecs)}

SomeHostvars ==
    {Dict(EmptyDict), Dict(ExampleHostvars), Dict(SpecialHostvars),
     Dict(ShapedHostvars),
     [type |-> "HostVarsVars", items |-> ExampleHostvars]}

\* Arguments of the right types, and a few of every mix of right and
\* wrong types.
Args ==
    (AppNames \X VarSpecs \X Hostvars)
    \cup ((SomeAppNames \cup NonStrings)
          \X (SomeVarSpecs \cup NonMappings)
          \X (SomeHostvars \cup NonMappings))

(***************************************************************************)
(* The state machine: a template evaluates the filter for the current      *)
(* host, moves on to another host of the inventory, or comes back to the   *)
(* host of its first call.                                                 *)
(***************************************************************************)
NoCall ==
    [called |-> FALSE, raised |-> NoError, message |-> "",
     returned |-> FALSE, lookups |-> 0, result |-> EmptyDict]

\* No helper of the molecule tests runs.
NoTest == [pc |-> "none"]

\* others: a call was made for another host since the first call;
\* repeated: after such a call, the first call's arguments were passed again.
NoFirst ==
    [called |-> FALSE, app_name |-> Str(""), var_specs |-> Dict(EmptyDict),
     hostvars |-> Dict(EmptyDict), outcome |-> NoCall,
     others |-> FALSE, repeated |-> FALSE]

Init ==
    /\ \E a \in Args :
         /\ playbook_app = a[1]
         /\ app_var_specs = a[2]
         /\ inventory_hostvars = a[3]
    /\ self = EmptyDict
    /\ deploy = NoCall
    /\ first = NoFirst
    /\ frames = <<>>
    /\ heap = <<>>
    /\ molecule = NoTest

\* deploy: "{{ playbook_app | resolve_app_vars(_app_var_specs, hostvars[...]) }}"
Call ==
    LET r == apply_filter("resolve_app_vars", self, playbook_app,
                          app_var_specs, inventory_hostvars)
        outcome == [called |-> TRUE, raised |-> r.raised,
                    message |-> r.message, returned |-> r.returned,
                    lookups |-> r.lookups, result |-> r.result]
    IN  /\ deploy' = outcome
        /\ self' = r.self
        /\ app_var_specs' = r.var_specs
        /\ inventory_hostvars' = r.hostvars
        /\ first' = IF ~first.called
                    THEN [NoFirst EXCEPT !.called = TRUE,
                                         !.app_name = playbook_app,
                                         !.var_specs = app_var_specs,
                                         !.hostvars = inventory_hostvars,
                                         !.outcome = outcome]
                    ELSE IF inventory_hostvars # first.hostvars
                    THEN [first EXCEPT !.others = TRUE]
                    ELSE [first EXCEPT !.repeated = first.others]
        /\ UNCHANGED <<playbook_app, frames, heap, molecule>>

\* The play goes on to another host: its variables, no result for it yet.
NextHost ==
    /\ inventory_hostvars # Dict(OtherHostvars)
    /\ inventory_hostvars' = Dict(OtherHostvars)
    /\ deploy' = NoCall
    /\ UNCHANGED <<playbook_app, app_var_specs, self, first, frames, heap,
                   molecule>>

\* The play comes back to the host of the first call.
Revisit ==
    /\ first.called
    /\ inventory_hostvars # first.hostvars
    /\ inventory_hostvars' = first.hostvars
    /\ deploy' = NoCall
    /\ UNCHANGED <<playbook_app, app_var_specs, self, first, frames, heap,
                   molecule>>

Next == Call \/ NextHost \/ Revisit

Spec == Init /\ [][Next]_vars

(***************************************************************************)
(* Properties.  They are stated over the caller's view: the three          *)
(* arguments and the outcome of the call made with them.                   *)
(***************************************************************************)
Returned == deploy.called /\ deploy.returned

SpecsOf == app_var_specs.items

EnvOf == inventory_hostvars.items

\* app_name + "_" + suffix
PrefixedKey(suffix) == playbook_app.text \o "_" \o suffix

Overridden(suffix) == Contains(EnvOf, PrefixedKey(suffix))

\* The environment's value under the prefixed key when that key is
\* present, otherwise the default.
Resolved(suffix) ==
    IF Overridden(suffix)
    THEN GetItem(EnvOf, PrefixedKey(suffix))
    ELSE GetItem(SpecsOf, suffix)

\* The result holds suffix -> v.
Maps(suffix, v) ==
    Contains(deploy.result, suffix) /\ GetItem(deploy.result, suffix) = v

\* C1: after a call that returned, a suffix of specs is a key of the
\* result if and only if its resolved value is not None, and the result
\* maps it to exactly that value.
C1_KeyIffResolvedNonNull ==
    Returned =>
        \A s \in Keys(SpecsOf) :
            /\ Contains(deploy.result, s) <=> Resolved(s) # None
            /\ Contains(deploy.result, s) => Maps(s, Resolved(s))

\* A call returned with one suffix overridden by a value that is empty but
\* not None, and another suffix left out for its None default.
C1_Witness ==
    /\ Returned
    /\ \E s \in Keys(SpecsOf) :
          Overridden(s) /\ Resolved(s) = "[]" /\ GetItem(SpecsOf, s) = "'nginx'"
          /\ Maps(s, "[]")
    /\ \E s \in Keys(SpecsOf) :
          ~Overridden(s) /\ Resolved(s) = None /\ ~Contains(deploy.result, s)

\* C2: the keys of the result are keys of specs, whatever keys the
\* environment holds.
C2_ResultKeysSubsetOfSpecs ==
    Returned => Keys(deploy.result) \subseteq Keys(SpecsOf)

\* A call returned a non-empty result while the environment held a key
\* with the application's prefix whose suffix is not in specs.
C2_Witness ==
    /\ Returned
    /\ deploy.result # EmptyDict
    /\ \E s \in Suffixes \ Keys(SpecsOf) : Overridden(s)

\* C3: a suffix of specs whose prefixed key is in the environment with a
\* value v that is not None is mapped to v, whatever its default.
C3_NonNullOverrideWins ==
    Returned =>
        \A s \in Keys(SpecsOf) :
            (Overridden(s) /\ GetItem(EnvOf, PrefixedKey(s)) # None)
                => Maps(s, GetItem(EnvOf, PrefixedKey(s)))

\* A call returned with one override over a None default and another over
\* a different default that is not None.
C3_Witness ==
    /\ Returned
    /\ \E s \in Keys(SpecsOf) :
          /\ Overridden(s) /\ GetItem(SpecsOf, s) = None
          /\ Maps(s, "'nginx'")
    /\ \E s \in Keys(SpecsOf) :
          /\ Overridden(s) /\ GetItem(SpecsOf, s) \notin {None, Resolved(s)}
          /\ Resolved(s) # None /\ Maps(s, Resolved(s))

\* C4: a suffix of specs whose prefixed key is absent from the environment
\* and whose default is not None is mapped to its default.
C4_DefaultWhenAbsent ==
    Returned =>
        \A s \in Keys(SpecsOf) :
            (~Overridden(s) /\ GetItem(SpecsOf, s) # None)
                => Maps(s, GetItem(SpecsOf, s))

\* A call returned a default while the environment held the un-prefixed
\* key and another application's key, neither of which is the lookup key.
C4_Witness ==
    /\ Returned
    /\ playbook_app.text = "testapp"
    /\ Contains(SpecsOf, "image") /\ ~Overridden("image")
    /\ Contains(EnvOf, "image") /\ Contains(EnvOf, "app_image")
    /\ GetItem(SpecsOf, "image") = "'nginx'"
    /\ Maps("image", "'nginx'")

\* C5: a suffix of specs whose default is None, and whose environment
\* value, when there is one, is None too, is not a key of the result.
C5_NullIsOmitted ==
    Returned =>
        \A s \in Keys(SpecsOf) :
            (/\ GetItem(SpecsOf, s) = None
             /\ Overridden(s) => GetItem(EnvOf, PrefixedKey(s)) = None)
                => ~Contains(deploy.result, s)

\* A call returned a result without two suffixes: one with a None default
\* and no override, one with a None default and a None override.
C5_Witness ==
    /\ Returned
    /\ \E s, t \in Keys(SpecsOf) :
          /\ GetItem(SpecsOf, s) = None /\ ~Overridden(s)
          /\ GetItem(SpecsOf, t) = None /\ Overridden(t) /\ Resolved(t) = None
          /\ ~Contains(deploy.result, s) /\ ~Contains(deploy.result, t)

\* C6: a call with an app_name that is no string, with specs that are no
\* mapping, or with an environment that is no mapping raises TypeError and
\* returns nothing.
C6_WrongTypeRaisesTypeError ==
    (/\ deploy.called
     /\ \/ playbook_app.type \notin StrTypes
        \/ app_var_specs.type \notin MappingTypes
        \/ inventory_hostvars.type \notin MappingTypes)
        => /\ deploy.raised = "TypeError"
           /\ ~deploy.returned
           /\ deploy.result = EmptyDict

\* A call raised TypeError where only the environment had the wrong type
\* and specs had entries to resolve.
C6_Witness ==
    /\ deploy.called
    /\ playbook_app.type \in StrTypes
    /\ app_var_specs.type \in MappingTypes
    /\ SpecsOf # EmptyDict
    /\ inventory_hostvars.type = "list"
    /\ deploy.raised = "TypeError"

\* C7: a call, returning or raising, leaves specs and the environment (and
\* app_name) as they were before it.
C7_CallLeavesArgumentsUnchanged ==
    [][deploy'.called =>
          /\ app_var_specs' = app_var_specs
          /\ inventory_hostvars' = inventory_hostvars
          /\ playbook_app' = playbook_app]_vars

\* After calls for two hosts and a repeated call for the first, with a
\* default that the environment does not override, the first host's
\* variables are still those of the first call.
C7_Witness ==
    /\ Returned
    /\ first.repeated
    /\ inventory_hostvars = first.hostvars
    /\ \E s \in Keys(SpecsOf) : ~Overridden(s) /\ Maps(s, GetItem(SpecsOf, s))

\* C8: a call made with the arguments of the first call has the outcome of
\* the first call, whatever calls were made in between.
C8_SameArgumentsSameOutcome ==
    (/\ first.called
     /\ deploy.called
     /\ inventory_hostvars = first.hostvars)
        => /\ deploy.raised = first.outcome.raised
           /\ deploy.returned = first.outcome.returned
           /\ DictEq(deploy.result, first.outcome.result)

\* The first call's arguments were passed again after a call for another
\* host whose result held a key that the first result lacks.
C8_Witness ==
    /\ Returned
    /\ first.repeated
    /\ inventory_hostvars = first.hostvars
    /\ playbook_app.text = "testapp"
    /\ Contains(SpecsOf, "image")
    /\ ~Contains(deploy.result, "image")

\* The result of the documented scenario.
ExampleResult ==
    <<<<"image", "'nginx'">>, <<"image_tag", "'latest'">>,
      <<"restart_policy", "'always'">>>>

\* C9: with app_name "testapp", specs {image: None, image_tag: 'latest',
\* restart_policy: 'unless-stopped'} and environment {testapp_image:
\* 'nginx', testapp_restart_policy: 'always'} the call returns exactly
\* {image: 'nginx', image_tag: 'latest', restart_policy: 'always'}.
C9_DocumentedScenario ==
    (/\ deploy.called
     /\ playbook_app = Str("testapp")
     /\ app_var_specs.type = "dict" /\ DictEq(SpecsOf, ExampleSpecs)
     /\ inventory_hostvars.type = "dict" /\ DictEq(EnvOf, ExampleHostvars))
        => /\ deploy.returned
           /\ DictEq(deploy.result, ExampleResult)

\* The scenario's call was made and returned a result of three entries.
C9_Witness ==
    /\ Returned
    /\ playbook_app = Str("testapp")
    /\ app_var_specs = Dict(ExampleSpecs)
    /\ inventory_hostvars = Dict(ExampleHostvars)
    /\ Len(deploy.result) = 3

\* C10: a resolved value that is empty or false but not None is kept: a
\* suffix is left out only for a resolved value of None, and specs
\* {volumes: []} with an empty environment give {volumes: []}.
C10_EmptyValuesAreKept ==
    Returned =>
        /\ \A s \in Keys(SpecsOf) :
              Resolved(s) \in Falsy \ {None} => Maps(s, Resolved(s))
        /\ \A s \in Keys(SpecsOf) \ Keys(deploy.result) : Resolved(s) = None
        /\ (DictEq(SpecsOf, <<<<"volumes", "[]">>>>) /\ EnvOf = EmptyDict)
              => DictEq(deploy.result, <<<<"volumes", "[]">>>>)

\* The call with specs {volumes: []} and an empty environment returned
\* {volumes: []}.
C10_Witness ==
    /\ Returned
    /\ SpecsOf = <<<<"volumes", "[]">>>>
    /\ EnvOf = EmptyDict
    /\ deploy.result = <<<<"volumes", "[]">>>>

WrongTypes ==
    \/ playbook_app.type \notin StrTypes
    \/ app_var_specs.type \notin MappingTypes
    \/ inventory_hostvars.type \notin MappingTypes

\* C11: a TypeError is raised before any lookup in the environment and
\* before any entry of the result exists, nothing is returned with it, and
\* an environment that is no mapping raises it even with empty specs.
C11_TypeErrorBeforeAnyLookup ==
    deploy.called =>
        /\ deploy.raised = "TypeError"
              => /\ deploy.lookups = 0
                 /\ ~deploy.returned
                 /\ deploy.result = EmptyDict
        /\ (/\ playbook_app.type \in StrTypes
            /\ app_var_specs.type \in MappingTypes
            /\ SpecsOf = EmptyDict
            /\ inventory_hostvars.type \notin MappingTypes)
              => deploy.raised = "TypeError"

\* A call with empty specs and a list as environment raised TypeError.
C11_Witness ==
    /\ deploy.called
    /\ playbook_app.type \in StrTypes
    /\ app_var_specs.type \in MappingTypes
    /\ SpecsOf = EmptyDict
    /\ inventory_hostvars.type = "list"
    /\ inventory_hostvars.items # EmptyDict
    /\ deploy.raised = "TypeError"
    /\ deploy.lookups = 0

\* C12: a call with a string, a mapping and a mapping returns a mapping,
\* missing lookup keys and None defaults included; a call fails only with
\* a TypeError, and only for an argument of the wrong type.
C12_OnlyTypeChecksFail ==
    deploy.called =>
        /\ ~WrongTypes
              => /\ deploy.returned
                 /\ deploy.raised = NoError
                 /\ Cardinality(Keys(deploy.result)) = Len(deploy.result)
        /\ deploy.raised # NoError
              => deploy.raised = "TypeError" /\ WrongTypes

\* A call returned although one lookup key was missing for a None default
\* and another was missing for a default that is not None.
C12_Witness ==
    /\ Returned
    /\ \E s, t \in Keys(SpecsOf) :
          /\ ~Overridden(s) /\ GetItem(SpecsOf, s) = None
          /\ ~Overridden(t) /\ GetItem(SpecsOf, t) # None

(***************************************************************************)
(* Concurrent callers.  Each caller runs resolve_app_vars for its own      *)
(* application on the one FilterModule instance, with the same var_specs   *)
(* and hostvars objects; the statements of the calls interleave.  A call   *)
(* keeps its locals in its frame and its result dict on the heap.          *)
(***************************************************************************)
Callers == 1 .. MaxCallers

\* The application each caller deploys.
app_of(t) == IF t % 2 = 1 THEN Str("testapp") ELSE Str("app")

\* One dict object serves every call (a mutable default argument).
result_of_shared(t) == 1

\* Line 87: result = {} creates a dict object of the call's own.
result_of(t) == t

ConcurrentSpecs == {Dict(d) : d \in Dicts(Suffixes, {None, "'nginx'"}, MaxSpecs)}

ConcurrentHostvars ==
    {Dict(EmptyDict), Dict(ExampleHostvars), Dict(OtherHostvars),
     [type |-> "list", items |-> ExampleHostvars]}

NoFrame ==
    [pc |-> "enter", raised |-> NoError, message |-> "", i |-> 0,
     var_name |-> "", value |-> None, result |-> 0]

InitConcurrent ==
    /\ playbook_app = app_of(1)
    /\ app_var_specs \in ConcurrentSpecs
    /\ inventory_hostvars \in ConcurrentHostvars
    /\ self = EmptyDict
    /\ deploy = NoCall
    /\ first = [NoFirst EXCEPT !.var_specs = app_var_specs,
                               !.hostvars = inventory_hostvars]
    /\ frames = [t \in Callers |-> NoFrame]
    /\ heap = [t \in Callers |-> EmptyDict]
    /\ molecule = NoTest

\* Lines 80-87: the type checks, then result = {}.
Enter(t) ==
    /\ frames[t].pc = "enter"
    /\ LET err == type_error(app_of(t), app_var_specs, inventory_hostvars)
       IN  IF err # NoError
           THEN /\ frames' = [frames EXCEPT ![t].pc = "raised",
                                            ![t].raised = "TypeError",
                                            ![t].message = err]
                /\ UNCHANGED heap
           ELSE /\ frames' = [frames EXCEPT ![t].pc = "for",
                                            ![t].i = 1,
                                            ![t].result = result_of(t)]
                /\ heap' = [heap EXCEPT ![result_of(t)] = new_result(self)]
    /\ UNCHANGED <<playbook_app, app_var_specs, inventory_hostvars, self,
                   deploy, first, molecule>>

\* Lines 88-90: the next pair of var_specs and the lookup in hostvars, or
\* line 95 when no pair is left.
Lookup(t) ==
    /\ frames[t].pc = "for"
    /\ LET f == frames[t]
           items == app_var_specs.items
       IN  IF f.i > Len(items)
           THEN frames' = [frames EXCEPT ![t].pc = "done"]
           ELSE frames' =
                    [frames EXCEPT
                        ![t].pc = "store",
                        ![t].var_name = items[f.i][1],
                        ![t].value =
                            dict_get(inventory_hostvars.items,
                                     lookup_key(app_of(t), items[f.i][1]),
                                     items[f.i][2])]
    /\ UNCHANGED <<playbook_app, app_var_specs, inventory_hostvars, self,
                   deploy, first, heap, molecule>>

\* Lines 92-93: the value is stored in the call's result unless it is None.
Store(t) ==
    /\ frames[t].pc = "store"
    /\ LET f == frames[t]
       IN  /\ heap' = IF is_not_None(f.value)
                      THEN [heap EXCEPT ![f.result] =
                                dict_setitem(@, f.var_name, f.value)]
                      ELSE heap
           /\ frames' = [frames EXCEPT ![t].pc = "for", ![t].i = f.i + 1]
    /\ UNCHANGED <<playbook_app, app_var_specs, inventory_hostvars, self,
                   deploy, first, molecule>>

NextConcurrent == \E t \in Callers : Enter(t) \/ Lookup(t) \/ Store(t)

SpecConcurrent == InitConcurrent /\ [][NextConcurrent]_vars

\* C13: under every interleaving of concurrent calls on shared specs and
\* environment, each call that has ended has the outcome it has when run
\* alone, and the shared specs and environment are as they were.
C13_ConcurrentCallsAsIfAlone ==
    /\ app_var_specs = first.var_specs
    /\ inventory_hostvars = first.hostvars
    /\ \A t \in DOMAIN frames :
          frames[t].pc \in {"done", "raised"} =>
              LET alone == resolve_app_vars(EmptyDict, app_of(t),
                                            first.var_specs, first.hostvars)
              IN  /\ frames[t].raised = alone.raised
                  /\ frames[t].pc = "done"
                        => /\ alone.returned
                           /\ DictEq(heap[frames[t].result], alone.result)

\* One caller has returned while another is in the middle of its loop,
\* about to store a value, and the two results differ.
C13_Witness ==
    /\ frames # <<>>
    /\ frames[1].pc = "done"
    /\ frames[2].pc = "store" /\ frames[2].i = 2 /\ frames[2].value # None
    /\ heap[frames[1].result] # EmptyDict
    /\ heap[frames[2].result] # EmptyDict
    /\ ~DictEq(heap[frames[1].result], heap[frames[2].result])

(***************************************************************************)
(* A play that varies the arguments.  After its first call the play       *)
(* changes one argument and calls again: it lists the pairs of var_specs   *)
(* in another order, drops one of them, sets or deletes one host           *)
(* variable, or goes on to a second application whose name extends the     *)
(* first one's.                                                            *)
(***************************************************************************)
PlayApp == Str("app")

SecondApp == Str("app_db")

PlaySuffixes == {"image", "db_image", "volumes"}

\* The second application's specs.
SecondSpecs == <<<<"image", "'postgres'">>, <<"volumes", None>>>>

\* Host variables: app's db_image or app_db's image, app's image, and two
\* that no lookup key equals: no prefix, and another letter case.
PlayHostKeys == <<"app_db_image", "app_image", "image", "APP_IMAGE">>

PlayDefaults == {None, "'nginx'"}

PlayOverrides == {None, "'redis'"}

\* The dicts that hold the pairs of d in another order.
Reordered(d) ==
    {[i \in DOMAIN d |-> d[p[i]]] : p \in Permutations(DOMAIN d)} \ {d}

\* del d[k]
dict_delitem(d, k) ==
    LET keep == {i \in DOMAIN d : d[i][1] # k}
        nth(n) == CHOOSE i \in keep : Cardinality({j \in keep : j < i}) = n - 1
    IN  [n \in 1 .. Cardinality(keep) |-> d[nth(n)]]

InitPlay ==
    /\ playbook_app = PlayApp
    /\ app_var_specs \in {Dict(d) : d \in Dicts(PlaySuffixes, PlayDefaults, MaxSpecs)}
    /\ inventory_hostvars \in
           {Dict(d) : d \in OrderedDicts(PlayHostKeys, PlayOverrides, MaxEnv, 1)}
    /\ self = EmptyDict
    /\ deploy = NoCall
    /\ first = NoFirst
    /\ frames = <<>>
    /\ heap = <<>>
    /\ molecule = NoTest

\* The first call was made and the arguments are still those it was given.
AtFirst ==
    /\ first.called
    /\ playbook_app = first.app_name
    /\ app_var_specs = first.var_specs
    /\ inventory_hostvars = first.hostvars

Reorder ==
    /\ AtFirst
    /\ \E d \in Reordered(app_var_specs.items) : app_var_specs' = Dict(d)
    /\ deploy' = NoCall
    /\ UNCHANGED <<playbook_app, inventory_hostvars, self, first, frames, heap,
                   molecule>>

Restrict ==
    /\ AtFirst
    /\ \E k \in Keys(app_var_specs.items) :
          app_var_specs' = Dict(dict_delitem(app_var_specs.items, k))
    /\ deploy' = NoCall
    /\ UNCHANGED <<playbook_app, inventory_hostvars, self, first, frames, heap,
                   molecule>>

SetHostVar ==
    /\ AtFirst
    /\ \E n \in DOMAIN PlayHostKeys, v \in PlayOverrides :
          /\ inventory_hostvars' =
                 Dict(dict_setitem(inventory_hostvars.items, PlayHostKeys[n], v))
          /\ inventory_hostvars' # inventory_hostvars
    /\ deploy' = NoCall
    /\ UNCHANGED <<playbook_app, app_var_specs, self, first, frames, heap,
                   molecule>>

DelHostVar ==
    /\ AtFirst
    /\ \E k \in Keys(inventory_hostvars.items) :
          inventory_hostvars' = Dict(dict_delitem(inventory_hostvars.items, k))
    /\ deploy' = NoCall
    /\ UNCHANGED <<playbook_app, app_var_specs, self, first, frames, heap,
                   molecule>>

NextApp ==
    /\ AtFirst
    /\ playbook_app' = SecondApp
    /\ app_var_specs' = Dict(SecondSpecs)
    /\ deploy' = NoCall
    /\ UNCHANGED <<inventory_hostvars, self, first, frames, heap, molecule>>

\* The play passes the result of the first call as var_specs.
Reresolve ==
    /\ AtFirst
    /\ deploy.called
    /\ deploy.returned
    /\ app_var_specs' = Dict(deploy.result)
    /\ deploy' = NoCall
    /\ UNCHANGED <<playbook_app, inventory_hostvars, self, first, frames, heap,
                   molecule>>

NextPlay ==
    Call \/ Reorder \/ Restrict \/ SetHostVar \/ DelHostVar \/ NextApp
        \/ Reresolve

SpecPlay == InitPlay /\ [][NextPlay]_vars

\* The call at hand has the application and the environment of the first
\* call.
SameAppAndEnv ==
    /\ first.called
    /\ deploy.called
    /\ playbook_app = first.app_name
    /\ inventory_hostvars = first.hostvars

FirstSpecs == first.var_specs.items

FirstResult == first.outcome.result

\* C14: specs that hold the same pairs in another order give an equal
\* result, and a suffix has the same outcome whichever other pairs are
\* resolved with it.
C14_OrderOfSpecsIsIrrelevant ==
    SameAppAndEnv =>
        /\ DictEq(SpecsOf, FirstSpecs)
              => /\ deploy.returned = first.outcome.returned
                 /\ DictEq(deploy.result, FirstResult)
        /\ \A s \in Keys(SpecsOf) \cap Keys(FirstSpecs) :
              GetItem(SpecsOf, s) = GetItem(FirstSpecs, s)
                 => /\ Contains(deploy.result, s) <=> Contains(FirstResult, s)
                    /\ Contains(deploy.result, s)
                          => GetItem(deploy.result, s) = GetItem(FirstResult, s)

\* The specs of the first call were passed again in another order, a pair
\* that resolves to None now coming before one that is stored.
C14_Witness ==
    /\ SameAppAndEnv
    /\ deploy.returned
    /\ DictEq(SpecsOf, FirstSpecs)
    /\ SpecsOf # FirstSpecs
    /\ ~Contains(deploy.result, SpecsOf[1][1])
    /\ Contains(deploy.result, SpecsOf[2][1])
    /\ DictEq(deploy.result, FirstResult)

\* C15: a call whose app_name is a string returns whatever the string
\* holds, and with the empty string the lookup key of a suffix is "_"
\* followed by the suffix.
C15_AnyAppNameIsAccepted ==
    (/\ deploy.called
     /\ playbook_app.type \in StrTypes
     /\ app_var_specs.type \in MappingTypes
     /\ inventory_hostvars.type \in MappingTypes)
        => /\ deploy.returned
           /\ playbook_app.text = "" =>
                 \A s \in Keys(SpecsOf) :
                    LET value == IF Contains(EnvOf, "_" \o s)
                                 THEN GetItem(EnvOf, "_" \o s)
                                 ELSE GetItem(SpecsOf, s)
                    IN  IF value = None
                        THEN ~Contains(deploy.result, s)
                        ELSE Maps(s, value)

\* A call with the empty app_name took the value of "_image" although the
\* environment also held "image".
C15_Witness ==
    /\ Returned
    /\ playbook_app = Str("")
    /\ Contains(EnvOf, "image") /\ Contains(EnvOf, "_image")
    /\ GetItem(EnvOf, "_image") # GetItem(EnvOf, "image")
    /\ Contains(SpecsOf, "image") /\ GetItem(SpecsOf, "image") = None
    /\ Maps("image", GetItem(EnvOf, "_image"))

\* C16: filters() holds the resolver under the name resolve_app_vars and
\* holds nothing else, and the filter called by that name has the outcome
\* of FilterModule.resolve_app_vars called with the same arguments.
C16_FilterIsTheResolver ==
    /\ Keys(filters(self)) = {"resolve_app_vars"}
    /\ Len(filters(self)) = 1
    /\ deploy.called =>
          LET direct == resolve_app_vars(self, playbook_app, app_var_specs,
                                         inventory_hostvars)
          IN  /\ deploy.raised = direct.raised
              /\ deploy.message = direct.message
              /\ deploy.returned = direct.returned
              /\ DictEq(deploy.result, direct.result)

\* The template's call by name returned a result with entries.
C16_Witness ==
    /\ Returned
    /\ Contains(filters(self), "resolve_app_vars")
    /\ deploy.result # EmptyDict

\* C17: a suffix whose lookup key is in the environment with the value
\* None is left out of the result, also when its default is not None.
C17_NullOverrideOmits ==
    Returned =>
        \A s \in Keys(SpecsOf) :
            (Overridden(s) /\ GetItem(EnvOf, PrefixedKey(s)) = None)
                => ~Contains(deploy.result, s)

\* A call returned a result without a suffix whose default is not None
\* and whose host variable is None.
C17_Witness ==
    /\ Returned
    /\ \E s \in Keys(SpecsOf) :
          /\ Overridden(s) /\ GetItem(EnvOf, PrefixedKey(s)) = None
          /\ GetItem(SpecsOf, s) = "'nginx'"
          /\ ~Contains(deploy.result, s)

FirstEnv == first.hostvars.items

\* The environment at hand and that of the first call hold key k alike:
\* in both with one value, or in neither.
AgreeOn(k) ==
    /\ Contains(EnvOf, k) <=> Contains(FirstEnv, k)
    /\ Contains(EnvOf, k) => GetItem(EnvOf, k) = GetItem(FirstEnv, k)

\* C18: two calls with the same app_name and specs, whose environments
\* agree on app_name + "_" + suffix for every suffix of specs, have equal
\* outcomes, whatever else the environments hold.
C18_OnlyLookupKeysMatter ==
    (/\ first.called
     /\ deploy.called
     /\ playbook_app = first.app_name
     /\ app_var_specs = first.var_specs
     /\ \A s \in Keys(SpecsOf) : AgreeOn(PrefixedKey(s)))
        => /\ deploy.returned = first.outcome.returned
           /\ DictEq(deploy.result, FirstResult)

\* The second environment differs from the first in a key that is a
\* suffix of specs without the prefix, and the results are equal.
C18_Witness ==
    /\ first.called
    /\ Returned
    /\ playbook_app = first.app_name
    /\ app_var_specs = first.var_specs
    /\ \A s \in Keys(SpecsOf) : AgreeOn(PrefixedKey(s))
    /\ \E s \in Keys(SpecsOf) :
          /\ Contains(EnvOf, s) /\ GetItem(EnvOf, s) # None
          /\ ~Contains(FirstEnv, s)
          /\ ~Overridden(s)
    /\ Contains(EnvOf, "APP_IMAGE")
    /\ DictEq(deploy.result, FirstResult)

Containers == ListValues \cup DictValues

\* C19: after a call that returned, a suffix whose default is a list or a
\* dict and whose override is not None is mapped to the override itself,
\* whether the override is a list, a dict or of another type.
C19_OverrideReplacesDefault ==
    Returned =>
        \A s \in Keys(SpecsOf) :
            (/\ GetItem(SpecsOf, s) \in Containers
             /\ Overridden(s)
             /\ GetItem(EnvOf, PrefixedKey(s)) # None)
                => Maps(s, GetItem(EnvOf, PrefixedKey(s)))

\* One call overrides a list by another list, a dict by another dict and
\* a list by a string, and the result holds the three overrides.
C19_Witness ==
    /\ Returned
    /\ Contains(SpecsOf, "volumes") /\ Contains(SpecsOf, "labels")
    /\ Contains(SpecsOf, "ports")
    /\ GetItem(SpecsOf, "volumes") = "['/data']"
    /\ GetItem(SpecsOf, "labels") = "{'a': 1}"
    /\ GetItem(SpecsOf, "ports") \in ListValues
    /\ Maps("volumes", "['/logs']")
    /\ Maps("labels", "{'b': 2}")
    /\ Maps("ports", "'8080'")

\* The key that both app "app" with suffix "db_image" and app "app_db" with
\* suffix "image" are looked up under.
SharedKey == PlayApp.text \o "_" \o "db_image"

\* The second application is called on the host variables of the first
\* call, which resolved the suffix "db_image" for the first application.
BothAppsCalled ==
    /\ first.called
    /\ deploy.called
    /\ first.app_name = PlayApp
    /\ playbook_app = SecondApp
    /\ inventory_hostvars = first.hostvars
    /\ Contains(FirstSpecs, "db_image")
    /\ Contains(SpecsOf, "image")

\* C20: app "app" with suffix "db_image" and app "app_db" with suffix
\* "image" have one lookup key; both calls return, and a host variable
\* under that key that is not None is the value of both results, while one
\* that is None leaves both suffixes out.
C20_PrefixCollisionSharesOverride ==
    BothAppsCalled =>
        /\ SharedKey = SecondApp.text \o "_" \o "image"
        /\ first.outcome.returned
        /\ deploy.returned
        /\ Contains(EnvOf, SharedKey) =>
              LET v == GetItem(EnvOf, SharedKey)
              IN  IF v # None
                  THEN /\ Contains(FirstResult, "db_image")
                       /\ GetItem(FirstResult, "db_image") = v
                       /\ Maps("image", v)
                  ELSE /\ ~Contains(FirstResult, "db_image")
                       /\ ~Contains(deploy.result, "image")

\* One host variable overrode two defaults that differ from it, one of
\* each application.
C20_Witness ==
    /\ BothAppsCalled
    /\ Contains(EnvOf, SharedKey)
    /\ GetItem(EnvOf, SharedKey) = "'redis'"
    /\ GetItem(FirstSpecs, "db_image") = "'nginx'"
    /\ GetItem(SpecsOf, "image") = "'postgres'"
    /\ GetItem(FirstResult, "db_image") = "'redis'"
    /\ Maps("image", "'redis'")

AppNameInvalid == playbook_app.type \notin StrTypes

VarSpecsInvalid == app_var_specs.type \notin MappingTypes

HostvarsInvalid == inventory_hostvars.type \notin MappingTypes

\* The number of arguments of the wrong type.
InvalidCount ==
    (IF AppNameInvalid THEN 1 ELSE 0) + (IF VarSpecsInvalid THEN 1 ELSE 0)
        + (IF HostvarsInvalid THEN 1 ELSE 0)

\* The words of the messages that stand between the parameter's name and
\* the type's name.
MustBeString == " must be a string, got "

MustBeDictLike == " must be a dict-like object, got "

\* C21: when one argument has the wrong type, the TypeError's message
\* starts with the name of that parameter and ends with the name of the
\* type of the value that was passed for it.
C21_MessageNamesParameterAndType ==
    (deploy.called /\ InvalidCount = 1) =>
        /\ deploy.raised = "TypeError"
        /\ AppNameInvalid =>
              deploy.message = "app_name" \o MustBeString \o playbook_app.type
        /\ VarSpecsInvalid =>
              deploy.message = "var_specs" \o MustBeDictLike \o app_var_specs.type
        /\ HostvarsInvalid =>
              deploy.message = "hostvars" \o MustBeDictLike \o inventory_hostvars.type

\* A list passed as hostvars, with a valid app_name and specs, is reported
\* as "hostvars ..., got list".
C21_Witness ==
    /\ deploy.called
    /\ InvalidCount = 1
    /\ inventory_hostvars.type = "list"
    /\ deploy.raised = "TypeError"
    /\ deploy.message = "hostvars must be a dict-like object, got list"

\* C22: when several arguments have the wrong type, the one TypeError
\* raised is that of the first of them in the order app_name, var_specs,
\* hostvars, whatever the types of the later ones.
C22_FirstInvalidParameterIsReported ==
    (deploy.called /\ InvalidCount > 1) =>
        /\ deploy.raised = "TypeError"
        /\ ~deploy.returned
        /\ deploy.message =
              IF AppNameInvalid
              THEN "app_name" \o MustBeString \o playbook_app.type
              ELSE "var_specs" \o MustBeDictLike \o app_var_specs.type

\* All three arguments have the wrong type and app_name is reported; and
\* the message is one that names no type of a later argument.
C22_Witness ==
    /\ deploy.called
    /\ InvalidCount = 3
    /\ playbook_app.type = "int"
    /\ app_var_specs.type = "list"
    /\ inventory_hostvars.type = "NoneType"
    /\ deploy.raised = "TypeError"
    /\ deploy.message = "app_name must be a string, got int"

(***************************************************************************)
(* Objects.  The heap is the sequence of the dict objects that exist, an   *)
(* object's reference is its index.  The play passes the same var_specs    *)
(* and hostvars objects to successive calls, keeps the reference each call *)
(* returns, and adds top-level keys to, or removes them from, the mappings *)
(* it was returned.                                                        *)
(***************************************************************************)
SpecsRef == 1

EnvRef == 2

FirstResultRef == 3

\* The dict is created by the first call, kept on the instance and used
\* again by every later call.
dict_new_cached(h) ==
    IF Len(h) >= FirstResultRef
    THEN [ref |-> FirstResultRef, heap |-> h]
    ELSE [ref |-> Len(h) + 1, heap |-> Append(h, EmptyDict)]

\* Line 87: {} is a new, empty dict object.
dict_new(h) == [ref |-> Len(h) + 1, heap |-> Append(h, EmptyDict)]

\* Lines 87-95 on objects: result refers to a dict object, the loop reads
\* the var_specs and hostvars objects and stores into the result object,
\* whose reference is returned.
resolve_app_vars_on_heap(h, app_name, var_specs, hostvars) ==
    LET new   == dict_new(h)
        entry == [raised    |-> NoError,
                  lookups   |-> 0,
                  result    |-> new.heap[new.ref],
                  var_specs |-> Dict(new.heap[var_specs]),
                  hostvars  |-> Dict(new.heap[hostvars])]
        exit  == for_items(entry, app_name, entry.var_specs.items, 1)
    IN  [ref  |-> new.ref,
         heap |-> [new.heap EXCEPT ![new.ref] = exit.result]]

\* Keys the play writes into a mapping it was returned: a suffix, a lookup
\* key, and one that is neither.
PlayKeys == {"image", "testapp_image", "note"}

PlayValue == "'edited'"

ObjectSpecs == {Dict(d) : d \in Dicts({"image", "volumes"}, {None, "'nginx'"}, MaxSpecs)}

ObjectHostvars == {Dict(ExampleHostvars), Dict(OtherHostvars)}

InitObjects ==
    /\ playbook_app = Str("testapp")
    /\ app_var_specs \in ObjectSpecs
    /\ inventory_hostvars \in ObjectHostvars
    /\ self = EmptyDict
    /\ deploy = NoCall
    /\ first = NoFirst
    /\ frames = <<>>
    /\ heap = <<app_var_specs.items, inventory_hostvars.items>>
    /\ molecule = NoTest

\* A call with the var_specs and hostvars objects; the play keeps the
\* reference it is returned.
CallObjects ==
    /\ Len(frames) < MaxCalls
    /\ LET r == resolve_app_vars_on_heap(heap, playbook_app, SpecsRef, EnvRef)
           outcome == [NoCall EXCEPT !.called = TRUE, !.returned = TRUE,
                                     !.result = r.heap[r.ref]]
       IN  /\ heap' = r.heap
           /\ frames' = Append(frames, r.ref)
           /\ deploy' = outcome
           /\ first' = IF ~first.called
                       THEN [NoFirst EXCEPT !.called = TRUE,
                                            !.app_name = playbook_app,
                                            !.var_specs = app_var_specs,
                                            !.hostvars = inventory_hostvars,
                                            !.outcome = outcome]
                       ELSE [first EXCEPT !.repeated = TRUE]
    /\ UNCHANGED <<playbook_app, app_var_specs, inventory_hostvars, self,
                   molecule>>

\* returned[k] = v, by the play.
AddKey ==
    /\ \E i \in DOMAIN frames, k \in PlayKeys :
          /\ heap' = [heap EXCEPT ![frames[i]] = dict_setitem(@, k, PlayValue)]
          /\ heap' # heap
    /\ UNCHANGED <<playbook_app, app_var_specs, inventory_hostvars, self,
                   deploy, first, frames, molecule>>

\* del returned[k], by the play.
RemoveKey ==
    /\ \E i \in DOMAIN frames :
          \E k \in Keys(heap[frames[i]]) :
              heap' = [heap EXCEPT ![frames[i]] = dict_delitem(@, k)]
    /\ UNCHANGED <<playbook_app, app_var_specs, inventory_hostvars, self,
                   deploy, first, frames, molecule>>

NextObjects == CallObjects \/ AddKey \/ RemoveKey

SpecObjects == InitObjects /\ [][NextObjects]_vars

\* C23: the mapping a call returns is an object that is neither var_specs
\* nor hostvars nor the mapping of another call; whatever keys the play
\* adds to or removes from returned mappings, var_specs and hostvars hold
\* what they held, and a later call returns what the first call returned.
C23_ResultIsNewObject ==
    /\ heap[SpecsRef] = app_var_specs.items
    /\ heap[EnvRef] = inventory_hostvars.items
    /\ \A i \in DOMAIN frames :
          /\ frames[i] \notin {SpecsRef, EnvRef}
          /\ \A j \in DOMAIN frames : frames[i] = frames[j] => i = j
    /\ deploy.called => DictEq(deploy.result, FirstResult)

\* The play added a key to and removed a key from the first mapping it was
\* returned, then called again: the second mapping is what the first was
\* when it was returned.
C23_Witness ==
    /\ Len(frames) = 2
    /\ first.repeated
    /\ FirstResult # EmptyDict
    /\ \E k \in PlayKeys :
          /\ ~Contains(FirstResult, k)
          /\ Contains(heap[frames[1]], k)
    /\ \E k \in Keys(FirstResult) : ~Contains(heap[frames[1]], k)
    /\ DictEq(heap[frames[2]], FirstResult)
    /\ DictEq(deploy.result, FirstResult)

\* C24: a call whose var_specs is the result of the first call, with the
\* application and the environment of the first call, returns, and its
\* result equals the result it was given.
C24_ReresolutionIsFixedPoint ==
    (SameAppAndEnv /\ first.outcome.returned
        /\ app_var_specs = Dict(FirstResult))
        => /\ deploy.returned
           /\ DictEq(deploy.result, FirstResult)
           /\ DictEq(deploy.result, SpecsOf)

\* The first call dropped a suffix and took an override for another; its
\* result was resolved again and came back.
C24_Witness ==
    /\ SameAppAndEnv
    /\ Returned
    /\ app_var_specs = Dict(FirstResult)
    /\ app_var_specs # first.var_specs
    /\ \E s \in Keys(FirstSpecs) : ~Contains(FirstResult, s)
    /\ \E s \in Keys(FirstSpecs) :
          /\ Overridden(s)
          /\ Contains(FirstResult, s)
          /\ GetItem(FirstResult, s) # GetItem(FirstSpecs, s)
    /\ DictEq(deploy.result, FirstResult)

\* The pairs of d whose value is not None, in d's order.
WithoutNone(d) == SelectSeq(d, LAMBDA pair : pair[2] # None)

\* The environment holds no lookup key of the call.
NoLookupKey == \A s \in Keys(SpecsOf) : ~Overridden(s)

\* C25: after a call that returned with an environment that holds none of
\* the lookup keys, the result is specs without its None entries; so empty
\* specs give an empty result whatever the environment, and specs without
\* None defaults come back as an equal mapping.
C25_NoOverrideReturnsNonNullSpecs ==
    Returned =>
        /\ NoLookupKey => DictEq(deploy.result, WithoutNone(SpecsOf))
        /\ SpecsOf = EmptyDict => deploy.result = EmptyDict
        /\ (NoLookupKey /\ \A s \in Keys(SpecsOf) : GetItem(SpecsOf, s) # None)
              => DictEq(deploy.result, SpecsOf)

\* Specs with a None default and another default, and an empty
\* environment: the result is the one entry that is not None.
C25_Witness ==
    /\ Returned
    /\ EnvOf = EmptyDict
    /\ Len(SpecsOf) = 2
    /\ \E s \in Keys(SpecsOf) : GetItem(SpecsOf, s) = None
    /\ Len(deploy.result) = 1
    /\ DictEq(deploy.result, WithoutNone(SpecsOf))

(***************************************************************************)
(* molecule/deploy/tests/conftest.py: wait_for_container_ready (lines      *)
(* 32-40; test_deploy.py lines 19-27 hold the same function).  The clock   *)
(* counts seconds and does not go back; a statement takes up to MaxDelay   *)
(* seconds, time.sleep(1) at least one.  What the docker daemon answers    *)
(* to a poll is any of Answers.                                            *)
(***************************************************************************)
filter_vars ==
    <<playbook_app, app_var_specs, inventory_hostvars, self, deploy, first,
      frames, heap>>

\* The filter's variables while a helper of the tests runs.
NoFilter ==
    /\ playbook_app = Str("testapp")
    /\ app_var_specs = Dict(EmptyDict)
    /\ inventory_hostvars = Dict(EmptyDict)
    /\ self = EmptyDict
    /\ deploy = NoCall
    /\ first = NoFirst
    /\ frames = <<>>
    /\ heap = <<>>

Timeouts == -1 .. MaxTimeout

\* Container.status values, and the two errors of client.containers.get.
Statuses == {"created", "running", "exited"}

Answers == Statuses \cup {"NotFound", "APIError"}

\* Lines 24-29: the container (known here by its status), None when docker
\* raises NotFound; any other error is not caught.
get_container(answer) ==
    IF answer = "NotFound"
    THEN [raised |-> NoError, value |-> None]
    ELSE IF answer = "APIError"
    THEN [raised |-> "APIError", value |-> None]
    ELSE [raised |-> NoError, value |-> answer]

\* while time.time() - start_time <= timeout
loop_continues_inclusive(now, start_time, timeout) == now - start_time <= timeout

\* Line 35: time.time() - start_time < timeout
loop_continues(now, start_time, timeout) == now - start_time < timeout

\* Line 37: container and container.status == 'running'
is_ready(container) == container # None /\ container = "running"

\* Seconds a statement other than time.sleep takes.
Delays == 0 .. MaxDelay

\* Seconds time.sleep(1) takes.
SleepDelays == 1 .. 1 + MaxDelay

InitWait ==
    /\ NoFilter
    /\ \E t \in Timeouts :
          molecule = [pc |-> "line34", clock |-> 0, timeout |-> t,
                      start_time |-> 0, container |-> None, polls |-> <<>>,
                      value |-> None]

\* Line 34: start_time = time.time()
StartWait ==
    /\ molecule.pc = "line34"
    /\ \E d \in Delays :
          molecule' = [molecule EXCEPT !.pc = "line35",
                                       !.start_time = molecule.clock,
                                       !.clock = @ + d]
    /\ UNCHANGED filter_vars

\* Line 35 reads the clock; line 40 when the condition fails.
TestTimeout ==
    /\ molecule.pc = "line35"
    /\ \E d \in Delays :
          molecule' =
              IF loop_continues(molecule.clock, molecule.start_time,
                                molecule.timeout)
              THEN [molecule EXCEPT !.pc = "line36", !.clock = @ + d]
              ELSE [molecule EXCEPT !.pc = "returned", !.value = None]
    /\ UNCHANGED filter_vars

\* Lines 36-38: one poll, and the return when the container is running.
Poll ==
    /\ molecule.pc = "line36"
    /\ \E answer \in Answers, d \in Delays :
          LET got == get_container(answer)
              polled == [molecule EXCEPT !.polls = Append(@, answer),
                                         !.clock = @ + d]
          IN  molecule' =
                  IF got.raised # NoError
                  THEN [polled EXCEPT !.pc = "raised"]
                  ELSE IF is_ready(got.value)
                  THEN [polled EXCEPT !.pc = "returned",
                                      !.container = got.value,
                                      !.value = got.value]
                  ELSE [polled EXCEPT !.pc = "line39",
                                      !.container = got.value]
    /\ UNCHANGED filter_vars

\* Line 39: time.sleep(1)
Sleep ==
    /\ molecule.pc = "line39"
    /\ \E d \in SleepDelays :
          molecule' = [molecule EXCEPT !.pc = "line35", !.clock = @ + d]
    /\ UNCHANGED filter_vars

NextWait == StartWait \/ TestTimeout \/ Poll \/ Sleep

SpecWait == InitWait /\ [][NextWait]_vars

\* The test process is never suspended for ever.
SpecWaitFair == SpecWait /\ WF_vars(NextWait)

WaitDone == molecule.pc \in {"returned", "raised"}

SawRunning == \E i \in DOMAIN molecule.polls : molecule.polls[i] = "running"

WaitSafe ==
    /\ (molecule.pc = "returned" /\ molecule.value # None) =>
          /\ molecule.value = "running"
          /\ molecule.polls # <<>>
          /\ molecule.polls[Len(molecule.polls)] = "running"
    /\ SawRunning =>
          /\ molecule.pc = "returned"
          /\ molecule.value = "running"
          /\ \A i \in 1 .. Len(molecule.polls) - 1 :
                molecule.polls[i] # "running"
    /\ (molecule.pc = "returned" /\ ~SawRunning) =>
          /\ molecule.value = None
          /\ molecule.clock - molecule.start_time >= molecule.timeout
    /\ molecule.timeout <= 0 =>
          /\ molecule.polls = <<>>
          /\ molecule.pc # "raised"

\* C26: wait_for_container_ready ends; it returns a container only when
\* its last poll saw it running and no poll before did; it returns None
\* only when no poll saw it running and timeout seconds have passed; and
\* with a timeout of zero or less it makes no poll.
C26_WaitTerminates == []WaitSafe /\ <>WaitDone

\* The container never existed: several polls were answered NotFound, and
\* None was returned after the timeout.
C26_Witness ==
    /\ molecule.pc = "returned"
    /\ molecule.value = None
    /\ Len(molecule.polls) >= 2
    /\ \A i \in DOMAIN molecule.polls : molecule.polls[i] = "NotFound"
    /\ molecule.clock - molecule.start_time >= molecule.timeout

(***************************************************************************)
(* molecule/deploy/tests/test_service_connectivity.py: the retry loops of  *)
(* test_nginx_http_response (lines 26-38) and test_redis_connectivity      *)
(* (lines 52-68).  An attempt is the body of the try statement; it ends    *)
(* well, with a connection error, with a timeout, or with an assertion     *)
(* that failed.                                                            *)
(***************************************************************************)
\* Lines 26, 52
max_retries == 10

ServiceTests == {"test_nginx_http_response", "test_redis_connectivity"}

AttemptOutcomes == {"ok", "ConnectionError", "Timeout", "AssertionError"}

\* Lines 34, 64: the exceptions the except clause names.
is_caught(outcome) == outcome \in {"ConnectionError", "Timeout"}

\* if attempt == max_retries: never true within range(max_retries).
is_last_attempt_off_by_one(attempt) == attempt = max_retries

\* Lines 35, 65: attempt == max_retries - 1
is_last_attempt(attempt) == attempt = max_retries - 1

InitRetry ==
    /\ NoFilter
    /\ \E t \in ServiceTests :
          molecule = [pc |-> "try", test |-> t, attempt |-> 0,
                      outcomes |-> <<>>, sleeps |-> 0]

\* Lines 28-37 (54-67): one attempt; break when it ends well, pytest.fail
\* when a caught error is the last attempt's, and an error that is not
\* caught leaves the test.
Attempt ==
    /\ molecule.pc = "try"
    /\ \E outcome \in AttemptOutcomes :
          LET tried == [molecule EXCEPT !.outcomes = Append(@, outcome)]
          IN  molecule' =
                  IF outcome = "ok"
                  THEN [tried EXCEPT !.pc = "passed"]
                  ELSE IF ~is_caught(outcome)
                  THEN [tried EXCEPT !.pc = "failed"]
                  ELSE IF is_last_attempt(molecule.attempt)
                  THEN [tried EXCEPT !.pc = "failed"]
                  ELSE [tried EXCEPT !.pc = "sleep"]
    /\ UNCHANGED filter_vars

\* Lines 38, 68: time.sleep(2), then the next attempt of
\* range(max_retries); the test ends when the range is used up.
SleepAndRetry ==
    /\ molecule.pc = "sleep"
    /\ molecule' =
          IF molecule.attempt + 1 < max_retries
          THEN [molecule EXCEPT !.pc = "try", !.attempt = @ + 1,
                                !.sleeps = @ + 1]
          ELSE [molecule EXCEPT !.pc = "passed", !.sleeps = @ + 1]
    /\ UNCHANGED filter_vars

NextRetry == Attempt \/ SleepAndRetry

SpecRetry == InitRetry /\ [][NextRetry]_vars

Attempts == Len(molecule.outcomes)

LastOutcome == molecule.outcomes[Attempts]

\* C27: the loop makes at most 10 attempts; every attempt that another
\* followed ended with a connection or timeout error; an attempt that ends
\* well ends the loop and the test passes; the 10th such error in a row
\* fails the test; an assertion that fails in an attempt fails the test
\* with no further attempt.
C27_RetryLoop ==
    /\ Attempts <= max_retries
    /\ \A i \in 1 .. Attempts - 1 : is_caught(molecule.outcomes[i])
    /\ molecule.sleeps <= max_retries - 1
    /\ molecule.pc = "try" => Attempts = molecule.attempt /\ molecule.sleeps = Attempts
    /\ molecule.pc # "try" =>
          /\ Attempts = molecule.attempt + 1
          /\ LastOutcome = "ok" <=> molecule.pc = "passed"
          /\ LastOutcome = "AssertionError" => molecule.pc = "failed"
          /\ is_caught(LastOutcome) =>
                IF Attempts = max_retries
                THEN molecule.pc = "failed"
                ELSE molecule.pc = "sleep"
          /\ molecule.pc = "failed" => molecule.sleeps = Attempts - 1

\* Ten attempts ended with connection errors and timeouts, and the test
\* failed after nine sleeps.
C27_Witness ==
    /\ molecule.pc = "failed"
    /\ Attempts = 10
    /\ molecule.sleeps = 9
    /\ \A i \in 1 .. Attempts : is_caught(molecule.outcomes[i])
    /\ \E i, j \in 1 .. Attempts : molecule.outcomes[i] # molecule.outcomes[j]

(***************************************************************************)
(* molecule/deploy/tests/conftest.py: get_container_env_dict (lines        *)
(* 43-51).  A string of the Env list is the sequence of its characters,    *)
(* so that splitting it is computed.                                       *)
(***************************************************************************)
Chars == {"A", "="}

\* The strings of at most n characters.
RECURSIVE Strings(_)
Strings(n) ==
    IF n = 0
    THEN {<<>>}
    ELSE LET shorter == Strings(n - 1)
         IN  shorter \cup {Append(s, c) : s \in shorter, c \in Chars}

\* The lists of at most n strings.
RECURSIVE EnvLists(_)
EnvLists(n) ==
    IF n = 0
    THEN {<<>>}
    ELSE LET shorter == EnvLists(n - 1)
         IN  shorter \cup {Append(l, e) : l \in shorter, e \in Strings(MaxEntryLen)}

\* Line 48: '=' in env_var
contains_equals(env_var) == \E i \in DOMAIN env_var : env_var[i] = "="

\* env_var.rsplit('=', 1): split at the last '='.
split_at_last_equals(env_var) ==
    LET at == CHOOSE i \in DOMAIN env_var :
                  /\ env_var[i] = "="
                  /\ \A j \in DOMAIN env_var : j > i => env_var[j] # "="
    IN  <<SubSeq(env_var, 1, at - 1), SubSeq(env_var, at + 1, Len(env_var))>>

\* Line 49: env_var.split('=', 1), for an env_var that holds '='.
split_once(env_var) ==
    LET at == CHOOSE i \in DOMAIN env_var :
                  /\ env_var[i] = "="
                  /\ \A j \in 1 .. i - 1 : env_var[j] # "="
    IN  <<SubSeq(env_var, 1, at - 1), SubSeq(env_var, at + 1, Len(env_var))>>

\* Lines 47-50: the loop from the i-th string on.
RECURSIVE for_env_vars(_, _, _)
for_env_vars(env_dict, env_vars, i) ==
    IF i > Len(env_vars)
    THEN env_dict
    ELSE IF contains_equals(env_vars[i])
    THEN LET pair == split_once(env_vars[i])
         IN  for_env_vars(dict_setitem(env_dict, pair[1], pair[2]), env_vars, i + 1)
    ELSE for_env_vars(env_dict, env_vars, i + 1)

\* Lines 45-51
get_container_env_dict(env_vars) == for_env_vars(EmptyDict, env_vars, 1)

InitEnvDict ==
    /\ NoFilter
    /\ \E env_vars \in EnvLists(MaxEnvList) :
          molecule = [pc |-> "call", env_vars |-> env_vars, value |-> EmptyDict]

GetEnvDict ==
    /\ molecule.pc = "call"
    /\ molecule' = [molecule EXCEPT
                       !.pc = "returned",
                       !.value = get_container_env_dict(molecule.env_vars)]
    /\ UNCHANGED filter_vars

NextEnvDict == GetEnvDict

SpecEnvDict == InitEnvDict /\ [][NextEnvDict]_vars

\* s is name, '=', value, and name holds no '='.
IsNameValue(s, name, value) ==
    /\ s = name \o <<"=">> \o value
    /\ \A i \in DOMAIN name : name[i] # "="

\* The i-th string of the list gives name its value, and no later one
\* gives name a value.
LastFor(name, i) ==
    \A j \in DOMAIN molecule.env_vars :
        (\E n \in DOMAIN molecule.env_vars[j] :
             SubSeq(molecule.env_vars[j], 1, n - 1) = name
                 /\ IsNameValue(molecule.env_vars[j], name,
                                SubSeq(molecule.env_vars[j], n + 1,
                                       Len(molecule.env_vars[j]))))
            => j <= i

\* C28: the dict returned has, for every string name=value of the list
\* (name without '=', value with any), the key name with the value of the
\* last such string for that name; it has no other key, so a string
\* without '=' adds nothing.
C28_EnvDictSplitsAtFirstEquals ==
    molecule.pc = "returned" =>
        /\ \A i \in DOMAIN molecule.env_vars :
              LET s == molecule.env_vars[i]
              IN  \A n \in DOMAIN s :
                      LET name  == SubSeq(s, 1, n - 1)
                          value == SubSeq(s, n + 1, Len(s))
                      IN  (IsNameValue(s, name, value) /\ LastFor(name, i))
                              => /\ Contains(molecule.value, name)
                                 /\ GetItem(molecule.value, name) = value
        /\ \A name \in Keys(molecule.value) :
              \E i \in DOMAIN molecule.env_vars :
                  \E n \in DOMAIN molecule.env_vars[i] :
                      IsNameValue(molecule.env_vars[i], name,
                                  SubSeq(molecule.env_vars[i], n + 1,
                                         Len(molecule.env_vars[i])))
        /\ \A i, j \in DOMAIN molecule.value :
              molecule.value[i][1] = molecule.value[j][1] => i = j

\* The list A== , A=A : the first string gives A the value '=', cut at
\* its first '='; the second gives A again; the dict is {A: A}.
C28_Witness ==
    /\ molecule.pc = "returned"
    /\ molecule.env_vars = <<<<"A", "=", "=">>, <<"A", "=", "A">>>>
    /\ molecule.value = <<<<<<"A">>, <<"A">>>>>>

====
